---- MODULE Spec2Model ----
(***************************************************************************)
(* ntfs-reader: a model of the USN journal reader (src/src/journal.rs) and *)
(* of the in-memory MFT image queries (src/src/mft.rs, src/src/file.rs).   *)
(*                                                                         *)
(* Spec     the Journal: Journal::new, read_sized (one action per ioctl    *)
(*          batch of its loop), drop, with the file system appending       *)
(*          records to the on-disk journal in between.                     *)
(* MftSpec  a constructed Mft image queried with record_exists and         *)
(*          get_record.                                                    *)
(***************************************************************************)
EXTENDS Integers, Sequences, FiniteSets, TLC

VARIABLES
    disk,             \* the volume's USN journal: the raw records written so far
    jstate,           \* "none" | "open" | "failed" | "dropped": the Journal value
    handles,          \* OS handles currently open ("volume", "port")
    hist_option,      \* JournalOptions.max_history_size as given to Journal::new
    next_usn,         \* Journal.next_usn
    max_history_size, \* Journal.max_history_size
    history,          \* Journal.history (VecDeque<UsnRecord>), front first
    pc,               \* "idle" | "loop": where read_sized stands
    results,          \* read_sized's local `results`
    v4_records,       \* read_sized's local `v4_records`
    classified,       \* every record read_sized produced, in production order
    observed,         \* the non-empty results of the Ok returns, oldest first
    call,             \* the last read_sized call: where it started, how its
                      \* last batch ended and what it returned
    mft,              \* the Mft value: volume, data, bitmap, max_record
    query,            \* the last Mft query made and what it returned
    iter,             \* iterate_files: the record numbers the callback was given
    attr,             \* a non-resident attribute and its volume's cluster size
    decoded,          \* what get_nonresident_data_runs returned for attr
    walk,             \* _compute_path(_with_cache): where its loop stands
    cache,            \* the FileInfoCache handed to FileInfo::with_cache
    infos,            \* the last FileInfo of FileInfo::new and of with_cache
    pair,             \* a HashMapCache and a VecCache given the same calls
    reader,           \* the AlignedReader and the cursor of its inner device
    issued,           \* what the last seek or read call asked of the device
    outcome,          \* what the last seek or read call returned
    ntfs_file,        \* an NtfsFile whose attributes are walked
    scan,             \* NtfsFile::attributes: where its loop stands
    named,            \* what get_best_file_name returned for a record
    fsread            \* what Mft::read_data_fs returned for the MFT's record

jvars == <<disk, jstate, handles, hist_option, next_usn, max_history_size,
           history, pc, results, v4_records, classified, observed, call>>
mvars == <<mft, query>>
xvars == <<iter>>
avars == <<attr, decoded>>
pvars == <<walk, cache, infos, pair>>
rvars == <<reader, issued, outcome>>
svars == <<ntfs_file, scan, named, fsread>>
vars == <<disk, jstate, handles, hist_option, next_usn, max_history_size,
          history, pc, results, v4_records, classified, observed, call, mft,
          query,
          iter, attr, decoded, walk, cache, infos, pair, reader, issued,
          outcome, ntfs_file, scan, named, fsread>>

(***************************************************************************)
(* Bounds of the model.                                                    *)
(***************************************************************************)
MaxRecords == 3     \* records the file system writes to the journal
MaxBatch == 2       \* records one ioctl buffer can hold
MaxHistory == 2     \* largest n tried for HistorySize::Limited(n)
MaxMftRecords == 9  \* records of the largest MFT image
MaxBitmapLen == 2   \* bytes of the longest allocation bitmap
MaxUserRecords == 2 \* records behind the system files in an iterated image
MaxRuns == 3        \* pieces a data-run byte string is put together from
MaxPathRecords == 2 \* records behind the root directory in a path image
MaxDepth == 4       \* ancestors a path walk is followed for
MaxCacheNumber == 2 \* largest record number given to a cache directly
MaxDevice == 8      \* bytes of the device behind an AlignedReader
MaxPosition == 6    \* largest position an AlignedReader is moved to
MaxBufLen == 3      \* longest buffer handed to AlignedReader::read
MaxAttrCells == 4   \* 8-byte cells of the attribute area of a walked record
MaxNameAttrs == 2   \* attributes of a record asked for its best file name
MaxListEntries == 2 \* entries of an AttributeList
MaxFsAttrs == 2     \* attributes of the record given to read_data_fs

Min(a, b) == IF a < b THEN a ELSE b

None == [tag |-> "None"]
Some(x) == [tag |-> "Some", val |-> x]

RECURSIVE Flatten(_)
Flatten(ss) == IF ss = <<>> THEN <<>> ELSE Head(ss) \o Flatten(Tail(ss))

(***************************************************************************)
(* USN records.                                                            *)
(***************************************************************************)
Normal(id) == [kind |-> "Normal", id |-> id]
Extended(id) == [kind |-> "Extended", id |-> id]

E1 == [Offset |-> 0, Length |-> 4096]
E2 == [Offset |-> 8192, Length |-> 4096]

\* What the file system may append to the journal.  A raw record carries the
\* header's MajorVersion, the file reference, Reason, the file name and, for a
\* V4 record, its extents (NumberOfExtents >= 1).
RawKinds ==
    { [ver |-> 3, fid |-> 1, reason |-> {"RENAME_OLD_NAME"}, name |-> "A", ext |-> <<>>],
      [ver |-> 3, fid |-> 1, reason |-> {"RENAME_NEW_NAME"}, name |-> "B", ext |-> <<>>],
      [ver |-> 3, fid |-> 1, reason |-> {"RENAME_OLD_NAME"}, name |-> "B", ext |-> <<>>],
      [ver |-> 3, fid |-> 1, reason |-> {"DATA_OVERWRITE", "CLOSE"}, name |-> "A", ext |-> <<>>],
      [ver |-> 3, fid |-> 1, reason |-> {"HARD_LINK_CHANGE"}, name |-> "A", ext |-> <<>>],
      [ver |-> 2, fid |-> 1, reason |-> {"RENAME_OLD_NAME"}, name |-> "A", ext |-> <<>>],
      [ver |-> 4, fid |-> 1, reason |-> {"DATA_OVERWRITE"}, name |-> "", ext |-> <<E1>>],
      [ver |-> 5, fid |-> 1, reason |-> {"DATA_OVERWRITE"}, name |-> "A", ext |-> <<>>] }

\* NTFS logs a rename as the RENAME_OLD_NAME record of the file under its old
\* name followed by its RENAME_NEW_NAME record under the new one.
CanFollow(journal, r) ==
    "RENAME_NEW_NAME" \in r.reason =>
        /\ journal # <<>>
        /\ LET p == journal[Len(journal)]
           IN /\ p.ver = r.ver
              /\ p.fid = r.fid
              /\ "RENAME_OLD_NAME" \in p.reason
              /\ p.name # r.name

\* The USN of the i-th record of the journal and the USN that follows it: the
\* model's records are one USN unit long.
UsnAt(i) == i - 1

\* What a read through a dangling V4 reference can yield for its extent list.
StaleReads == {<<>>, <<E1>>, <<E2>>}

VolumePath == "V:"

get_usn_record_path(file_name) == <<VolumePath, "dir", file_name>>

from_v2(usn, rec) ==
    [usn |-> usn, file_id |-> Normal(rec.fid), reason |-> rec.reason,
     path |-> get_usn_record_path(rec.name), extents |-> None, chain |-> 0]

from_v3(usn, rec) ==
    [usn |-> usn, file_id |-> Extended(rec.fid), reason |-> rec.reason,
     path |-> get_usn_record_path(rec.name), extents |-> None, chain |-> 0]

\* A pending V4 entry is a reference into the buffer of the batch it came from:
\* `fresh` while that buffer is alive (the batch being walked), dangling after.
\* stale[k] is what reading the k-th entry yields once it dangles.
V4Extents(v4, stale) ==
    [k \in 1..Len(v4) |-> IF v4[k].fresh THEN v4[k].ext ELSE stale[k]]

UsnRecordExtent(e) == [offset |-> e.Offset, length |-> e.Length]

ConvertExtents(es) == [k \in 1..Len(es) |-> UsnRecordExtent(es[k])]

from_v4_chain(usn, v4, rec, stale) ==
    LET record == [from_v3(usn, rec) EXCEPT !.chain = Len(v4)]
    IN IF "CLOSE" \notin record.reason
       THEN record
       ELSE [record EXCEPT
               !.extents = Some(ConvertExtents(Flatten(V4Extents(v4, stale))))]

HistoryReasons == {"RENAME_OLD_NAME", "HARD_LINK_CHANGE", "REPARSE_POINT_CHANGE"}

handle_history_record_nopop(hist, maxh, record) ==
    IF record.reason \cap HistoryReasons # {} THEN Append(hist, record) ELSE hist

handle_history_record(hist, maxh, record) ==
    IF record.reason \cap HistoryReasons # {}
    THEN Append(IF maxh > 0 /\ Len(hist) >= maxh THEN Tail(hist) ELSE hist, record)
    ELSE hist

Max(S) == CHOOSE x \in S : \A y \in S : y <= x

\* history.iter().rev(): the first hit is the entry of the largest index.
match_rename(hist, record) ==
    IF "RENAME_NEW_NAME" \in record.reason
    THEN LET hits == {k \in 1..Len(hist) :
                        /\ hist[k].file_id = record.file_id
                        /\ "RENAME_OLD_NAME" \in hist[k].reason}
         IN IF hits = {} THEN None ELSE Some(hist[Max(hits)].path)
    ELSE None

(***************************************************************************)
(* read_sized: the walk over one ioctl batch.                              *)
(***************************************************************************)
\* The loop-carried state of the walk: results, v4_records, need_loop, and the
\* Journal's history; `classified` logs each record as it is produced.
ClassifyV2_silent(st, usn, rec, maxh) ==
    LET record == from_v2(usn, rec)
    IN [st EXCEPT !.v4 = <<>>,
                  !.history = handle_history_record(st.history, maxh, record),
                  !.classified = Append(st.classified, record)]

ClassifyV2(st, usn, rec, maxh) ==
    LET record == from_v2(usn, rec)
    IN [st EXCEPT !.v4 = <<>>,
                  !.history = handle_history_record(st.history, maxh, record),
                  !.results = Append(st.results, record),
                  !.classified = Append(st.classified, record)]

ClassifyV3(st, usn, rec, maxh, stale) ==
    LET record == IF st.v4 = <<>> THEN from_v3(usn, rec)
                  ELSE from_v4_chain(usn, st.v4, rec, stale)
    IN [st EXCEPT !.v4 = <<>>,
                  !.history = handle_history_record(st.history, maxh, record),
                  !.results = Append(st.results, record),
                  !.classified = Append(st.classified, record),
                  !.need_loop = FALSE]

ClassifyV4(st, rec) ==
    [st EXCEPT !.v4 = Append(st.v4, [ext |-> rec.ext, fresh |-> TRUE]),
               !.need_loop = TRUE]

WalkStep(st, usn, rec, maxh, stale) ==
    CASE rec.ver = 2 -> ClassifyV2(st, usn, rec, maxh)
      [] rec.ver = 3 -> ClassifyV3(st, usn, rec, maxh, stale)
      [] rec.ver = 4 -> ClassifyV4(st, rec)
      [] OTHER -> st

\* Records first..last of the journal, walked in buffer order.
RECURSIVE Walk(_, _, _, _, _)
Walk(st, first, last, maxh, stale) ==
    IF first > last THEN st
    ELSE Walk(WalkStep(st, UsnAt(first), disk[first], maxh, stale),
              first + 1, last, maxh, stale)

\* Whether the walk of records first..last reads the pending entries of an
\* earlier batch: its first V2 or V3 record is a V3 bearing CLOSE.
ReadsStale(first, last) ==
    \E i \in first..last :
        /\ disk[i].ver = 3
        /\ "CLOSE" \in disk[i].reason
        /\ \A j \in first..(i - 1) : disk[j].ver \notin {2, 3}

\* At the end of a loop iteration its buffer goes out of scope: every pending
\* V4 reference dangles from then on.
Dangling(v4) == [k \in 1..Len(v4) |-> [v4[k] EXCEPT !.fresh = FALSE]]

\* `if !need_loop { break; }` at the end of a batch.
NeedLoop_chain_open(st) == st.v4 # <<>>

NeedLoop(st) == st.need_loop

AdvanceNextUsn_stuck(cur, buf_next) == cur

AdvanceNextUsn(cur, buf_next) == buf_next

ReturnOk(res) ==
    /\ pc' = "idle"
    /\ results' = <<>>
    /\ v4_records' = <<>>
    /\ observed' = IF res = <<>> THEN observed ELSE Append(observed, res)

(***************************************************************************)
(* Actions of the Journal.                                                 *)
(***************************************************************************)
\* The file system appends a record to the volume's journal.
FsWrite ==
    /\ Len(disk) < MaxRecords
    /\ \E r \in RawKinds : CanFollow(disk, r) /\ disk' = Append(disk, r)
    /\ UNCHANGED <<jstate, handles, hist_option, next_usn, max_history_size,
                   history, pc, results, v4_records, classified, observed, call>>

HistoryOptions == {<<"Unlimited">>} \cup {<<"Limited", n>> : n \in 0..MaxHistory}

HistorySizeOf(opt) == IF opt[1] = "Unlimited" THEN 0 ELSE opt[2]

\* Journal::new.  CreateFileA, FSCTL_QUERY_USN_JOURNAL and
\* CreateIoCompletionPort may each fail; `?` returns at once.
JournalNew ==
    /\ jstate = "none"
    /\ \E opt \in HistoryOptions, start \in 0..Len(disk) :
        /\ hist_option' = opt
        /\ \/ /\ jstate' = "failed"          \* CreateFileA fails
              /\ handles' = handles
              /\ UNCHANGED <<next_usn, max_history_size>>
           \/ /\ jstate' = "failed"          \* the journal query fails
              /\ handles' = handles \cup {"volume"}
              /\ UNCHANGED <<next_usn, max_history_size>>
           \/ /\ jstate' = "failed"          \* CreateIoCompletionPort fails
              /\ handles' = handles \cup {"volume"}
              /\ UNCHANGED <<next_usn, max_history_size>>
           \/ /\ jstate' = "open"
              /\ handles' = handles \cup {"volume", "port"}
              /\ next_usn' = start
              /\ max_history_size' = HistorySizeOf(opt)
    /\ UNCHANGED <<disk, history, pc, results, v4_records, classified, observed,
                   call>>

\* The Journal goes out of scope.  It has no Drop implementation and HANDLE is
\* a plain Copy value: nothing is closed.
JournalDrop ==
    /\ jstate = "open"
    /\ pc = "idle"
    /\ jstate' = "dropped"
    /\ UNCHANGED <<disk, handles, hist_option, next_usn, max_history_size,
                   history, pc, results, v4_records, classified, observed, call>>

\* read_sized is entered.
ReadStart ==
    /\ jstate = "open"
    /\ pc = "idle"
    /\ pc' = "loop"
    /\ results' = <<>>
    /\ v4_records' = <<>>
    /\ call' = [start |-> next_usn, last |-> None, result |-> None]
    /\ UNCHANGED <<disk, jstate, handles, hist_option, next_usn,
                   max_history_size, history, classified, observed>>

\* One iteration of read_sized's loop: the ioctl returns the next n records
\* from StartUsn = next_usn (as many as fit in the buffer, none when nothing
\* was written since) behind the USN that follows them, and the walk
\* classifies them.
ReadBatch ==
    /\ pc = "loop"
    /\ LET avail == Len(disk) - next_usn
       IN \E n \in (IF avail = 0 THEN {0} ELSE 1..Min(MaxBatch, avail)) :
          LET buf_next == next_usn + n
              first == next_usn + 1
              last == next_usn + n
          IN IF buf_next = 0 \/ buf_next < next_usn
             THEN /\ ReturnOk(results)
                  /\ call' = [call EXCEPT !.result = Some(results)]
                  /\ UNCHANGED <<next_usn, history, classified>>
             ELSE \E stale \in [1..(IF ReadsStale(first, last)
                                    THEN Len(v4_records) ELSE 0) -> StaleReads] :
                  LET st == Walk([results |-> results, v4 |-> v4_records,
                                  need_loop |-> FALSE, history |-> history,
                                  classified |-> classified],
                                 first, last, max_history_size, stale)
                  IN /\ next_usn' = AdvanceNextUsn(next_usn, buf_next)
                     /\ history' = st.history
                     /\ classified' = st.classified
                     /\ call' = [call EXCEPT
                                   !.last = Some([need_loop |-> NeedLoop(st),
                                                  pending |-> Len(st.v4)]),
                                   !.result = IF NeedLoop(st) THEN None
                                              ELSE Some(st.results)]
                     /\ IF NeedLoop(st)
                        THEN /\ pc' = "loop"
                             /\ results' = st.results
                             /\ v4_records' = Dangling(st.v4)
                             /\ observed' = observed
                        ELSE ReturnOk(st.results)
    /\ UNCHANGED <<disk, jstate, handles, hist_option, max_history_size>>

\* The ioctl or the completion wait fails: `?` returns the error and the
\* records gathered so far are lost with `results`.
ReadFail ==
    /\ pc = "loop"
    /\ pc' = "idle"
    /\ results' = <<>>
    /\ v4_records' = <<>>
    /\ UNCHANGED <<disk, jstate, handles, hist_option, next_usn,
                   max_history_size, history, classified, observed, call>>

(***************************************************************************)
(* The MFT image (src/src/mft.rs) and its file records (src/src/file.rs).  *)
(***************************************************************************)
SECTOR_SIZE == 512
FILE_RECORD_SIGNATURE == "FILE"
\* size_of::<NtfsFileRecordHeader>(), a packed struct.
HeaderSize == 42
\* Volume.file_record_size of the modelled volume.
FileRecordSize == 1024
\* The largest record number asked for.  It stands for u64::MAX: the model
\* checker's integers are 32 bits wide.
U64Max == 2147483647

\* A file record: the header fields the code reads, the update sequence number
\* stored at update_sequence_offset, the update sequence array behind it and
\* the last two bytes of each sector.
GoodRecord ==
    [signature |-> "FILE", update_sequence_offset |-> 48,
     update_sequence_length |-> 3, used_size |-> 416, attributes_offset |-> 56,
     flags |-> 1, usn |-> 7, usa |-> <<1, 2, 3>>, tails |-> <<7, 7>>]

ZeroRecord ==
    [signature |-> "0000", update_sequence_offset |-> 0,
     update_sequence_length |-> 0, used_size |-> 0, attributes_offset |-> 0,
     flags |-> 0, usn |-> 0, usa |-> <<0, 0, 0>>, tails |-> <<0, 0>>]

\* The records a volume may hold besides good ones.
OddRecords ==
    { [GoodRecord EXCEPT !.flags = 0],
      [GoodRecord EXCEPT !.signature = "BAAD"],
      ZeroRecord,
      [GoodRecord EXCEPT !.update_sequence_length = 0],
      [GoodRecord EXCEPT !.used_size = 1025],
      [GoodRecord EXCEPT !.update_sequence_length = 4],
      [GoodRecord EXCEPT !.attributes_offset = 416],
      [GoodRecord EXCEPT !.update_sequence_offset = 1020],
      [GoodRecord EXCEPT !.tails = <<7, 9>>],
      [GoodRecord EXCEPT !.usa = <<7, 2, 3>>],
      [GoodRecord EXCEPT !.update_sequence_length = 2],
      [GoodRecord EXCEPT !.update_sequence_length = 2, !.tails = <<7, 9>>] }

\* The allocation bits a bitmap byte may carry, as sets of bit positions, and
\* the byte that stores them.
BitSets == {{}, {0, 2}, 0..7}

RECURSIVE ByteOf(_)
ByteOf(bitset) ==
    IF bitset = {} THEN 0
    ELSE LET b == CHOOSE x \in bitset : TRUE
         IN 2 ^ b + ByteOf(bitset \ {b})

\* NtfsFile::is_valid on a record of `len` bytes.
is_valid(rec, len) ==
    LET usa_end == rec.update_sequence_offset + rec.update_sequence_length * 2
        usa_num == rec.update_sequence_length - 1
        sector_num == len \div SECTOR_SIZE
    IN /\ len >= HeaderSize
       /\ rec.signature = FILE_RECORD_SIGNATURE
       /\ rec.update_sequence_length # 0
       /\ rec.used_size <= len
       /\ ~(usa_end > len \/ usa_num > sector_num)
       /\ rec.attributes_offset < rec.used_size

\* data[sector_off..sector_off + 2].copy_from_slice(&usa) for the k-th sector.
ReplaceTail_keep(rec, k) == rec

ReplaceTail(rec, k) == [rec EXCEPT !.tails[k] = rec.usa[k]]

\* Mft::fixup_record on a record of `len` bytes: [ok, data].
RECURSIVE FixupSectors(_, _, _, _)
FixupSectors(rec, len, k, count) ==
    LET sector_off == (SECTOR_SIZE - 2) + (k - 1) * SECTOR_SIZE
    IN IF k > count \/ sector_off + 2 > len
       THEN [ok |-> TRUE, data |-> rec]
       ELSE IF rec.tails[k] # rec.usn
            THEN [ok |-> FALSE, data |-> rec]
            ELSE FixupSectors(ReplaceTail(rec, k), len, k + 1, count)

fixup_record(rec, len) ==
    LET usn_start == rec.update_sequence_offset
        usa_start == usn_start + 2
        usa_end == usn_start + rec.update_sequence_length * 2
        count == IF usa_end > usa_start THEN (usa_end - usa_start + 1) \div 2 ELSE 0
    IN IF len < HeaderSize \/ usn_start + 2 > len \/ usa_end > len
       THEN [ok |-> FALSE, data |-> rec]
       ELSE FixupSectors(rec, len, 1, count)

\* Mft::record_exists.
record_exists_off_by_one(m, number) ==
    IF number > m.max_record THEN FALSE
    ELSE LET bitmap_idx == number \div 8
             bitmap_off == number % 8
         IN IF bitmap_idx >= Len(m.bitmap) THEN FALSE
            ELSE (m.bitmap[bitmap_idx + 1] \div (2 ^ bitmap_off)) % 2 # 0

record_exists(m, number) ==
    IF number >= m.max_record THEN FALSE
    ELSE LET bitmap_idx == number \div 8
             bitmap_off == number % 8
         IN IF bitmap_idx >= Len(m.bitmap) THEN FALSE
            ELSE (m.bitmap[bitmap_idx + 1] \div (2 ^ bitmap_off)) % 2 # 0

\* Mft::get_record_data: the record's window of Mft.data.
get_record_data(m, number) ==
    LET start == number * m.file_record_size
        end == start + m.file_record_size
    IN [bytes |-> m.data[(start \div m.file_record_size) + 1], len |-> end - start]

\* Mft::get_record: the NtfsFile view, or None.
get_record_off_by_one(m, number) ==
    IF number >= m.max_record - 1 THEN None
    ELSE LET data == get_record_data(m, number)
         IN IF is_valid(data.bytes, data.len)
            THEN Some([number |-> number, data |-> data.bytes])
            ELSE None

get_record_unchecked(m, number) ==
    IF number >= m.max_record THEN None
    ELSE Some([number |-> number, data |-> get_record_data(m, number).bytes])

get_record(m, number) ==
    IF number >= m.max_record THEN None
    ELSE LET data == get_record_data(m, number)
         IN IF is_valid(data.bytes, data.len)
            THEN Some([number |-> number, data |-> data.bytes])
            ELSE None

\* The record numbers the queries are made with.
Numbers == 0..(MaxMftRecords + 1) \cup {U64Max}

\* Volume images: good records, the last of them possibly an odd one.
Images ==
    UNION { {[k \in 1..n |-> GoodRecord]}
            \cup {[k \in 1..n |-> IF k = n THEN odd ELSE GoodRecord] :
                     odd \in (IF n = 0 THEN {} ELSE OddRecords)} :
            n \in 0..MaxMftRecords }

Bitmaps == UNION {[1..n -> BitSets] : n \in 0..MaxBitmapLen}

\* The volume as Mft::new finds it: the MFT's Data and Bitmap attribute bytes.
MftInit ==
    /\ \E image \in Images, bits \in Bitmaps :
          mft = [state |-> "raw", file_record_size |-> FileRecordSize,
                 data |-> image,
                 bitmap |-> [k \in 1..Len(bits) |-> ByteOf(bits[k])],
                 max_record |-> Len(image),
                 \* not fields of Mft: the data as read from the volume and
                 \* the record numbers whose bit is set
                 raw |-> image,
                 allocated |-> UNION {{8 * (k - 1) + b : b \in bits[k]} :
                                         k \in 1..Len(bits)}]
    /\ query = [op |-> "none"]

MinOf(S) == CHOOSE x \in S : \A y \in S : x <= y

\* Mft::new from the point where data and bitmap are read: every record is
\* fixed up in ascending order, and the first failure is the error returned.
MftNew ==
    /\ mft.state = "raw"
    /\ LET fixed == [k \in 1..mft.max_record |->
                        fixup_record(mft.data[k], mft.file_record_size)]
           bad == {k \in 1..mft.max_record : ~fixed[k].ok}
       IN IF bad = {}
          THEN mft' = [mft EXCEPT !.state = "built",
                                  !.data = [k \in 1..mft.max_record |-> fixed[k].data]]
          ELSE mft' = [state |-> "error",
                       error |-> [kind |-> "CorruptMftRecord",
                                  number |-> MinOf(bad) - 1],
                       raw |-> mft.raw]
    /\ query' = query

RecordExists ==
    /\ mft.state = "built"
    /\ \E n \in Numbers :
          query' = [op |-> "record_exists", number |-> n,
                    exists |-> record_exists(mft, n)]
    /\ mft' = mft

GetRecord ==
    /\ mft.state = "built"
    /\ \E n \in Numbers :
          query' = [op |-> "get_record", number |-> n,
                    record |-> get_record(mft, n)]
    /\ mft' = mft

(***************************************************************************)
(* Mft::iterate_files.                                                     *)
(***************************************************************************)
FIRST_NORMAL_RECORD == 24

\* NtfsFile::is_used on the record a view refers to.
is_used(rec) == rec.flags % 2 # 0

\* The loop of iterate_files from `number` on; calls is the sequence of record
\* numbers the callback has been given.
RECURSIVE IterateFrom(_, _, _, _)
IterateFrom(m, number, calls, use_bitmap) ==
    IF number >= m.max_record THEN calls
    ELSE LET file == get_record(m, number)
             hit == /\ use_bitmap => record_exists(m, number)
                    /\ file # None
                    /\ is_used(file.val.data)
         IN IterateFrom(m, number + 1,
                        IF hit THEN Append(calls, number) ELSE calls, use_bitmap)

iterate_files_no_bitmap(m) == IterateFrom(m, FIRST_NORMAL_RECORD, <<>>, FALSE)

iterate_files(m) == IterateFrom(m, FIRST_NORMAL_RECORD, <<>>, TRUE)

\* Images to iterate: the system files, then up to MaxUserRecords records of
\* any kind; the bitmap has the system files' bits set and its fourth byte,
\* when it has one, any bits of the records behind them.
IterImages ==
    UNION { {[k \in 1..(FIRST_NORMAL_RECORD + n) |->
                 IF k <= FIRST_NORMAL_RECORD THEN GoodRecord
                 ELSE user[k - FIRST_NORMAL_RECORD]] :
               user \in [1..n -> {GoodRecord} \cup OddRecords]} :
            n \in 0..MaxUserRecords }

IterBitmaps ==
    {[k \in 1..3 |-> 0..7]}
    \cup {[k \in 1..4 |-> IF k <= 3 THEN 0..7 ELSE last] :
             last \in SUBSET (0..(MaxUserRecords - 1))}

IterInit ==
    /\ \E image \in IterImages, bits \in IterBitmaps :
          mft = [state |-> "raw", file_record_size |-> FileRecordSize,
                 data |-> image,
                 bitmap |-> [k \in 1..Len(bits) |-> ByteOf(bits[k])],
                 max_record |-> Len(image),
                 raw |-> image,
                 allocated |-> UNION {{8 * (k - 1) + b : b \in bits[k]} :
                                         k \in 1..Len(bits)}]
    /\ query = [op |-> "none"]
    /\ iter = [op |-> "none"]

IterateFiles ==
    /\ mft.state = "built"
    /\ iter.op = "none"
    /\ iter' = [op |-> "done", calls |-> iterate_files(mft)]
    /\ UNCHANGED <<mft, query>>

(***************************************************************************)
(* NtfsAttribute::get_nonresident_data_runs (src/src/attribute.rs).        *)
(***************************************************************************)
\* size_of::<NtfsNonResidentAttributeHeader>(), a packed struct.
NonResidentHeaderSize == 64
BUF_SIZE == 8

\* u64::from_le_bytes of the bytes copied into a zeroed buffer.
RECURSIVE from_le_bytes(_)
from_le_bytes(bytes) ==
    IF bytes = <<>> THEN 0 ELSE Head(bytes) + 256 * from_le_bytes(Tail(bytes))

\* (raw << empty_bits) >> empty_bits on an i64: the n-byte value sign-extended.
sign_extend_unsigned(raw, n) == raw

sign_extend(raw, n) ==
    IF raw >= 2 ^ (8 * n - 1) THEN raw - 2 ^ (8 * n) ELSE raw

\* u64::checked_mul and u64::checked_add; U64Max stands for u64::MAX.
\* u64::saturating_mul.
saturating_mul(a, b) ==
    Some(IF b # 0 /\ a > U64Max \div b THEN U64Max ELSE a * b)

checked_mul(a, b) == IF b # 0 /\ a > U64Max \div b THEN None ELSE Some(a * b)

checked_add(a, b) == IF a > U64Max - b THEN None ELSE Some(a + b)

Data(lcn, length) == [kind |-> "Data", lcn |-> lcn, length |-> length]
Sparse(length) == [kind |-> "Sparse", length |-> length]

InvalidDataRun(details) == [tag |-> "Err", error |-> "InvalidDataRun", details |-> details]
Ok(x) == [tag |-> "Ok", val |-> x]

\* The checks behind the decoding loop.
PostCheck_unchecked(total_size, total_run_length, out) ==
    IF total_size > 0 /\ out = <<>>
    THEN InvalidDataRun("attribute has size but no runs")
    ELSE Ok([size |-> total_size, runs |-> out])

PostCheck(total_size, total_run_length, out) ==
    IF total_size > 0 /\ out = <<>>
    THEN InvalidDataRun("attribute has size but no runs")
    ELSE IF total_run_length < total_size
         THEN InvalidDataRun("data runs shorter than declared size")
         ELSE Ok([size |-> total_size, runs |-> out])

\* The decoding loop; cursor counts the bytes of runs_data consumed.
RECURSIVE DecodeRuns(_, _, _, _, _, _, _)
DecodeRuns(runs_data, cluster_size, total_size, cursor, prev_lcn, total, out) ==
    IF cursor >= Len(runs_data)
    THEN InvalidDataRun("unterminated data run sequence")
    ELSE IF runs_data[cursor + 1] = 0
    THEN PostCheck(total_size, total, out)
    ELSE
    LET descriptor == runs_data[cursor + 1]
        cluster_count_b == descriptor % 16
        cluster_offset_b == descriptor \div 16
        c1 == cursor + 1
        c2 == c1 + cluster_count_b
        c3 == c2 + cluster_offset_b
        cluster_count == from_le_bytes(SubSeq(runs_data, c1 + 1, c2))
        run_length_bytes == checked_mul(cluster_count, cluster_size)
        new_total == checked_add(total, run_length_bytes.val)
        cluster_offset ==
            sign_extend(from_le_bytes(SubSeq(runs_data, c2 + 1, c3)), cluster_offset_b)
        start == prev_lcn + cluster_offset * cluster_size
    IN IF cluster_count_b = 0 \/ cluster_count_b > BUF_SIZE
       THEN InvalidDataRun("invalid cluster count field")
       ELSE IF cluster_offset_b > BUF_SIZE
       THEN InvalidDataRun("invalid cluster offset field")
       ELSE IF c2 > Len(runs_data)
       THEN InvalidDataRun("unexpected end of run-length data")
       ELSE IF cluster_count = 0
       THEN InvalidDataRun("cluster count is zero")
       ELSE IF run_length_bytes = None
       THEN InvalidDataRun("run length overflow")
       ELSE IF new_total = None
       THEN InvalidDataRun("total run length overflow")
       ELSE IF cluster_offset_b = 0
       THEN DecodeRuns(runs_data, cluster_size, total_size, c2, prev_lcn,
                       new_total.val, Append(out, Sparse(run_length_bytes.val)))
       ELSE IF c3 > Len(runs_data)
       THEN InvalidDataRun("unexpected end of run-offset data")
       ELSE IF start < 0
       THEN InvalidDataRun("relative offset underflow")
       ELSE DecodeRuns(runs_data, cluster_size, total_size, c3, start,
                       new_total.val,
                       Append(out, Data(start, run_length_bytes.val)))

\* NtfsAttribute::nonresident_header.
nonresident_header(a) ==
    IF a.is_non_resident = 0 THEN None
    ELSE IF a.length < NonResidentHeaderSize THEN None
    ELSE Some([data_size |-> a.data_size, data_runs_offset |-> a.data_runs_offset])

\* An attribute is its header fields and `body`, the bytes of data() behind
\* the non-resident header.
get_nonresident_data_runs(a, cluster_size) ==
    LET header_nonres == nonresident_header(a)
        total_size == header_nonres.val.data_size
        start == header_nonres.val.data_runs_offset
        runs_data == SubSeq(a.body, start - NonResidentHeaderSize + 1, Len(a.body))
    IN IF header_nonres = None
       THEN InvalidDataRun("attribute is resident")
       ELSE IF total_size = 0
       THEN Ok([size |-> total_size, runs |-> <<>>])
       ELSE IF start > a.length
       THEN InvalidDataRun("data runs offset outside attribute")
       ELSE DecodeRuns(runs_data, cluster_size, total_size, 0, 0, 0, <<>>)

\* The pieces run bytes are put together from: runs with a positive, a
\* negative and a two-byte offset, sparse runs, the terminator, descriptors
\* with bad field sizes, a zero count, a cut-off run and large counts.
RunPieces ==
    { <<17, 1, 1>>, <<17, 2, 255>>, <<1, 3>>, <<0>>, <<16>>, <<9>>,
      <<145, 1>>, <<17, 0, 1>>, <<17, 1>>, <<3, 255, 255, 255>>,
      <<3, 0, 0, 4>>, <<33, 1, 0, 128>> }

RunBytes == UNION {{Flatten(ps) : ps \in [1..n -> RunPieces]} : n \in 0..MaxRuns}

ClusterSizes == {512, 4096}

DataSizes == {0, 4096, 12289}

NonResident(body, size, offset) ==
    [is_non_resident |-> 1, length |-> NonResidentHeaderSize + Len(body),
     data_size |-> size, data_runs_offset |-> offset, body |-> body]

Attributes ==
    {NonResident(b, d, NonResidentHeaderSize) : b \in RunBytes, d \in DataSizes}
    \cup {NonResident(b, d, NonResidentHeaderSize + Len(b) + 1) :
             b \in RunPieces, d \in DataSizes}
    \cup {[NonResident(b, 4096, NonResidentHeaderSize) EXCEPT !.is_non_resident = 0] :
             b \in RunPieces}
    \cup {[NonResident(<<>>, 4096, NonResidentHeaderSize) EXCEPT !.length = 24]}

AttrInit ==
    /\ \E a \in Attributes, cs \in ClusterSizes :
          attr = [state |-> "given", attribute |-> a, cluster_size |-> cs]
    /\ decoded = [op |-> "none"]

AttrIdle ==
    /\ attr = [state |-> "none"]
    /\ decoded = [op |-> "none"]

GetNonresidentDataRuns ==
    /\ attr.state = "given"
    /\ decoded.op = "none"
    /\ decoded' = [op |-> "done",
                   result |-> get_nonresident_data_runs(attr.attribute,
                                                        attr.cluster_size)]
    /\ attr' = attr

(***************************************************************************)
(* FileInfo and its path caches (src/src/file_info.rs).                    *)
(***************************************************************************)
ROOT_RECORD == 5

\* HashMapCache: a map from record numbers to paths.
HashMapCache_get(c, number) ==
    IF number \in DOMAIN c THEN Some(c[number]) ELSE None

HashMapCache_insert(c, number, path) ==
    [k \in DOMAIN c \cup {number} |-> IF k = number THEN path ELSE c[k]]

\* VecCache: a vector of paths indexed by record number; resize fills the new
\* slots with PathBuf::new(), the empty path.
VecCache_get(c, number) ==
    IF Len(c) > number THEN Some(c[number + 1]) ELSE None

VecCache_insert(c, number, path) ==
    LET resized == IF Len(c) <= number
                   THEN c \o [k \in 1..(number + 1 - Len(c)) |-> <<>>]
                   ELSE c
    IN [resized EXCEPT ![number + 1] = path]

\* The FileInfoCache trait, dispatched on the implementation.
Cache_get(c, number) ==
    IF c.kind = "HashMapCache" THEN HashMapCache_get(c.store, number)
    ELSE VecCache_get(c.store, number)

Cache_insert(c, number, path) ==
    IF c.kind = "HashMapCache"
    THEN [c EXCEPT !.store = HashMapCache_insert(c.store, number, path)]
    ELSE [c EXCEPT !.store = VecCache_insert(c.store, number, path)]

\* A FileName attribute of a record: the name, the parent directory's record
\* number, the namespace and whether it is a reparse point.
FileNameAttr(name, parent) ==
    [name |-> name, parent |-> parent, namespace |-> "Win32", reparse |-> FALSE]

\* The attributes of a record as its walk meets them.  A FileName attribute
\* carries what as_name makes of it; an AttributeList is resident or not and
\* carries its entries, each with a type and the record number it references.
FileNameAttribute(name) == [type_id |-> "FileName", as_name |-> name]

AttributeList(is_non_resident, entries) ==
    [type_id |-> "AttributeList", is_non_resident |-> is_non_resident,
     entries |-> entries]

ListEntry(type_id, reference) == [type_id |-> type_id, reference |-> reference]

\* NtfsFile::get_attribute: the first attribute of the type.
RECURSIVE FirstOfType(_, _)
FirstOfType(attributes, attribute_type) ==
    IF attributes = <<>> THEN None
    ELSE IF Head(attributes).type_id = attribute_type THEN Some(Head(attributes))
    ELSE FirstOfType(Tail(attributes), attribute_type)

get_attribute(file, attribute_type) ==
    FirstOfType(file.data.attributes, attribute_type)

\* The loop over the entries of a resident AttributeList in
\* get_best_file_name: [returned, value] when the function returns from within
\* it, [returned = FALSE, best] when the loop ends or breaks.
RECURSIVE ListBestOf(_, _, _)
ListBestOf(entries, best, m) ==
    IF entries = <<>> THEN [returned |-> FALSE, best |-> best]
    ELSE IF Head(entries).type_id # "FileName"
    THEN ListBestOf(Tail(entries), best, m)
    ELSE LET rec == get_record(m, Head(entries).reference)
             att == get_attribute(rec.val, "FileName")
             name == att.val.as_name
         IN IF rec = None THEN [returned |-> TRUE, value |-> None]
            ELSE IF att = None THEN [returned |-> TRUE, value |-> None]
            ELSE IF name = None \/ name.val.reparse
            THEN ListBestOf(Tail(entries), best, m)
            ELSE IF name.val.namespace \in {"Win32", "Win32AndDos"}
            THEN [returned |-> TRUE, value |-> name]
            ELSE [returned |-> FALSE, best |-> name]

\* NtfsFile::get_best_file_name: the loop over the record's attributes.
RECURSIVE BestOf(_, _, _)
BestOf(attributes, best, m) ==
    IF attributes = <<>> THEN best
    ELSE LET a == Head(attributes)
             name == a.as_name
             listed == ListBestOf(a.entries, best, m)
         IN IF a.type_id = "FileName"
            THEN IF name = None \/ name.val.reparse
                 THEN BestOf(Tail(attributes), best, m)
                 ELSE IF name.val.namespace \in {"Win32", "Win32AndDos"}
                 THEN name
                 ELSE BestOf(Tail(attributes), name, m)
            ELSE IF a.type_id = "AttributeList"
            THEN IF a.is_non_resident # 0 THEN best
                 ELSE IF listed.returned THEN listed.value
                 ELSE BestOf(Tail(attributes), listed.best, m)
            ELSE BestOf(Tail(attributes), best, m)

get_best_file_name(file, m) == BestOf(file.data.attributes, None, m)

\* A fixed-up file record carrying the given attributes.
RecordWith(attributes) ==
    LET fixed == fixup_record(GoodRecord, FileRecordSize).data
    IN [f \in DOMAIN fixed \cup {"attributes"} |->
           IF f = "attributes" THEN attributes ELSE fixed[f]]

\* A fixed-up file record carrying the given FileName attributes.
NamedRecord(names) ==
    RecordWith([k \in 1..Len(names) |-> FileNameAttribute(Some(names[k]))])

\* What as_name yields for a FileName attribute.
FileName(name, namespace, reparse) ==
    [name |-> name, parent |-> ROOT_RECORD, namespace |-> namespace,
     reparse |-> reparse]

\* The records an AttributeList entry may reference: record 1 has no FileName
\* attribute, record 2 a Posix name, record 3 a Win32 name; there is no
\* record MissingRecord.
MissingRecord == 7

ReferencedRecords ==
    << RecordWith(<<[type_id |-> "Data"]>>),
       NamedRecord(<<FileName("p", "Posix", FALSE)>>),
       NamedRecord(<<FileName("w", "Win32", FALSE)>>) >>

EntryKinds ==
    {ListEntry("FileName", n) : n \in {1, 2, 3, MissingRecord}}
    \cup {ListEntry("Data", 3)}

EntryLists == UNION {[1..n -> EntryKinds] : n \in 0..MaxListEntries}

\* The attributes the asked record may carry.
NameAttrKinds ==
    { FileNameAttribute(Some(FileName("a", "Win32", FALSE))),
      FileNameAttribute(Some(FileName("b", "Posix", FALSE))),
      FileNameAttribute(Some(FileName("c", "Win32AndDos", FALSE))),
      FileNameAttribute(Some(FileName("r", "Win32", TRUE))),
      FileNameAttribute(None),
      AttributeList(1, <<ListEntry("FileName", 3)>>),
      [type_id |-> "Data"] }
    \cup {AttributeList(0, es) : es \in EntryLists}

\* An image whose record 0 carries any of these attributes.
NameInit ==
    /\ \E attributes \in UNION {[1..n -> NameAttrKinds] : n \in 0..MaxNameAttrs} :
         LET image == <<RecordWith(attributes)>> \o ReferencedRecords
         IN mft = [state |-> "built", file_record_size |-> FileRecordSize,
                   data |-> image, bitmap |-> <<255>>,
                   max_record |-> Len(image), raw |-> image,
                   allocated |-> 0..7]
    /\ query = [op |-> "none"]
    /\ named = [op |-> "none"]

\* get_best_file_name is asked of a record of the image.
GetBestFileName ==
    /\ mft.state = "built"
    /\ named.op = "none"
    /\ \E n \in 0..(mft.max_record - 1) :
         LET file == get_record(mft, n)
         IN /\ file # None
            /\ named' = [op |-> "done", number |-> n,
                         result |-> get_best_file_name(file.val, mft)]
    /\ UNCHANGED <<mft, query>>

(***************************************************************************)
(* Mft::read_data_fs (src/src/mft.rs): an attribute's bytes read from the  *)
(* volume, through the record's AttributeList if need be.                  *)
(***************************************************************************)
\* An attribute with the bytes it holds, in the record or in its clusters.
Attribute(type_id, is_non_resident, value) ==
    [type_id |-> type_id, is_non_resident |-> is_non_resident, value |-> value]

\* A list attribute holds its entries.
ListAttribute(is_non_resident, entries) ==
    [type_id |-> "AttributeList", is_non_resident |-> is_non_resident,
     value |-> entries]

\* NtfsAttribute::as_resident_data.
as_resident_data(att) ==
    IF att.type_id # "Data" THEN None
    ELSE IF att.is_non_resident # 0 THEN None
    ELSE Some(att.value)

\* Mft::read_attribute_data; the runs of a non-resident attribute are sound
\* and the device reads succeed.
read_attribute_data(att) ==
    IF att.is_non_resident = 0
    THEN IF as_resident_data(att) = None
         THEN InvalidDataRun("resident attribute missing value")
         ELSE Ok(as_resident_data(att).val)
    ELSE Ok(att.value)

\* The records behind the MFT's own record as Mft::get_record_fs returns them:
\* record 1 holds a Data and a Bitmap attribute, record 2 neither, record 3 is
\* not a valid record.
InvalidMftRecord == [tag |-> "Err", error |-> "InvalidMftRecord"]

get_record_fs(reference) ==
    CASE reference = 1 -> Ok(<<Attribute("StandardInformation", 0, "s1"),
                               Attribute("Data", 1, "D1"),
                               Attribute("Bitmap", 1, "B1")>>)
      [] reference = 2 -> Ok(<<Attribute("StandardInformation", 0, "s2")>>)
      [] OTHER -> InvalidMftRecord

\* The loop over the entries of an AttributeList: [returned, value] when
\* read_data_fs returns from within it.
RECURSIVE ListRead(_, _)
ListRead(entries, attribute_type) ==
    IF entries = <<>> THEN [returned |-> FALSE]
    ELSE LET entry == Head(entries)
             target_record == get_record_fs(entry.reference)
             target_attr == FirstOfType(target_record.val, attribute_type)
             data == read_attribute_data(target_attr.val)
         IN IF entry.type_id # attribute_type
            THEN ListRead(Tail(entries), attribute_type)
            ELSE IF target_record.tag # "Ok"
            THEN ListRead(Tail(entries), attribute_type)
            ELSE IF target_attr = None
            THEN ListRead(Tail(entries), attribute_type)
            ELSE [returned |-> TRUE,
                  value |-> IF data.tag = "Ok" THEN Ok(Some(data.val)) ELSE data]

\* The second pass of read_data_fs over the record's attributes.
RECURSIVE SecondPass(_, _)
SecondPass(attributes, attribute_type) ==
    IF attributes = <<>> THEN Ok(None)
    ELSE LET attribute == Head(attributes)
             att_list_data == IF attribute.is_non_resident # 0
                              THEN read_attribute_data(attribute)
                              ELSE IF as_resident_data(attribute) = None
                                   THEN [tag |-> "break"]
                                   ELSE Ok(as_resident_data(attribute).val)
             listed == ListRead(att_list_data.val, attribute_type)
         IN IF attribute.type_id # "AttributeList"
            THEN SecondPass(Tail(attributes), attribute_type)
            ELSE IF att_list_data.tag = "break" THEN Ok(None)
            ELSE IF att_list_data.tag = "Err" THEN att_list_data
            ELSE IF listed.returned THEN listed.value
            ELSE SecondPass(Tail(attributes), attribute_type)

\* Mft::read_data_fs on a record with the given attributes.
read_data_fs(attributes, attribute_type) ==
    LET own == FirstOfType(attributes, attribute_type)
        data == read_attribute_data(own.val)
    IN IF own # None
       THEN IF data.tag = "Ok" THEN Ok(Some(data.val)) ELSE data
       ELSE SecondPass(attributes, attribute_type)

FsEntryKinds ==
    {ListEntry(t, n) : t \in {"Data", "Bitmap", "StandardInformation"},
                       n \in {1, 2, 3}}

FsEntryLists == UNION {[1..n -> FsEntryKinds] : n \in 0..MaxListEntries}

\* The attributes the MFT's own record may carry.
FsAttrKinds ==
    { Attribute("StandardInformation", 0, "s0"),
      Attribute("Data", 1, "D0"),
      Attribute("Data", 0, "d0"),
      Attribute("Bitmap", 1, "B0"),
      Attribute("Bitmap", 0, "b0") }
    \cup {ListAttribute(r, es) : r \in {0, 1}, es \in FsEntryLists}

FsReadInit ==
    \E attributes \in UNION {[1..n -> FsAttrKinds] : n \in 0..MaxFsAttrs} :
        fsread = [op |-> "given", attributes |-> attributes]

\* Mft::new reads the Data or the Bitmap attribute of the MFT's record.
ReadDataFs ==
    /\ fsread.op = "given"
    /\ \E attribute_type \in {"Data", "Bitmap"} :
          fsread' = [op |-> "done", attributes |-> fsread.attributes,
                     attribute_type |-> attribute_type,
                     result |-> read_data_fs(fsread.attributes, attribute_type)]

RecordNames == <<"$0", "$1", "$2", "$3", "$4", ".", "a", "b", "c", "d">>

\* Path images: the system files and the root directory, each named and the
\* child of the root, then MaxPathRecords records that have no name (written
\* -1 below) or a name under any parent: a system file, the root, one of
\* themselves or a record number beyond the image.
PathUsers == (ROOT_RECORD + 1)..(ROOT_RECORD + MaxPathRecords)

PathParents == {ROOT_RECORD - 1, ROOT_RECORD} \cup PathUsers
                  \cup {ROOT_RECORD + MaxPathRecords + 1}

PathImages ==
    {[k \in 1..(ROOT_RECORD + 1 + MaxPathRecords) |->
         IF k - 1 <= ROOT_RECORD
         THEN NamedRecord(<<FileNameAttr(RecordNames[k], ROOT_RECORD)>>)
         ELSE IF parent[k - 1] = -1 THEN NamedRecord(<<>>)
         ELSE NamedRecord(<<FileNameAttr(RecordNames[k], parent[k - 1])>>)] :
       parent \in [PathUsers -> PathParents \cup {-1}]}

EmptyCache(kind) ==
    [kind |-> kind, store |-> <<>>]

\* PathBuf::push of each component, innermost ancestor last; `steps` is the
\* sequence of (number, path so far) the cached variant inserts.
RECURSIVE PushComponents(_, _, _)
PushComponents(path, components, k) ==
    IF k = 0 THEN <<>>
    ELSE LET next == Append(path, components[k].name)
         IN <<[number |-> components[k].number, path |-> next]>>
            \o PushComponents(next, components, k - 1)

RECURSIVE InsertAll(_, _)
InsertAll(c, steps) ==
    IF steps = <<>> THEN c
    ELSE InsertAll(Cache_insert(c, Head(steps).number, Head(steps).path), Tail(steps))

FileInfoOf(w, path) == [number |-> w.number, name |-> w.name, path |-> path]

\* The return of _compute_path / _compute_path_with_cache with `path`.
PathReturn(w, path) ==
    /\ walk' = [pc |-> "idle"]
    /\ infos' = IF w.mode = "new" THEN [infos EXCEPT !.new = FileInfoOf(w, path)]
                ELSE [infos EXCEPT !.cached = FileInfoOf(w, path)]

\* The code behind the loop: the path is built on `base` and, in the cached
\* variant, every prefix and the file's own path are inserted.  Paths of more
\* than MaxDepth + 2 components are not followed.
PathFinish(w, base) ==
    LET steps == PushComponents(base, w.components, Len(w.components))
        dir == IF steps = <<>> THEN base ELSE steps[Len(steps)].path
        path == Append(dir, w.name)
    IN /\ Len(path) <= MaxDepth + 2
       /\ PathReturn(w, path)
       /\ cache' = IF w.mode = "new" THEN cache
                   ELSE Cache_insert(InsertAll(cache, steps), w.number, path)

\* FileInfo::new(mft, file) and FileInfo::with_cache(mft, file, cache) up to
\* the loop, for a file view the caller got from the Mft.
PathStart ==
    /\ mft.state = "built"
    /\ walk.pc = "idle"
    /\ \E mode \in {"new", "with_cache"}, n \in PathUsers :
        LET file == get_record(mft, n)
            name == get_best_file_name(file.val, mft)
            w == [pc |-> "loop", mode |-> mode, number |-> n,
                  name |-> IF name = None THEN "" ELSE name.val.name,
                  next_parent |-> IF name = None THEN 0 ELSE name.val.parent,
                  components |-> <<>>,
                  iterations |-> 0]    \* of the loop, counted modulo 2
        IN /\ file # None
           /\ IF name = None
              THEN PathReturn(w, <<>>)
              ELSE walk' = w /\ infos' = infos
    /\ UNCHANGED <<mft, query, cache, pair>>

\* One iteration of the loop of _compute_path / _compute_path_with_cache.
PathStep ==
    /\ walk.pc = "loop"
    /\ LET hit == IF walk.mode = "new" THEN None
                  ELSE Cache_get(cache, walk.next_parent)
           cur_file == get_record(mft, walk.next_parent)
           cur_name_att == get_best_file_name(cur_file.val, mft)
       IN IF walk.next_parent = ROOT_RECORD
          THEN PathFinish(walk, <<VolumePath>>)
          ELSE IF hit # None
          THEN PathFinish(walk, hit.val)
          ELSE IF cur_file = None
          THEN PathReturn(walk, <<>>) /\ cache' = cache
          ELSE IF cur_name_att = None
          THEN PathReturn(walk, <<>>) /\ cache' = cache
          ELSE /\ walk' = [walk EXCEPT
                             !.components =
                                 \* the vector grows without limit; the model
                                 \* keeps its first MaxDepth components
                                 IF Len(@) < MaxDepth
                                 THEN Append(@, [number |-> cur_file.val.number,
                                                 name |-> cur_name_att.val.name])
                                 ELSE @,
                             !.iterations = (@ + 1) % 2,
                             !.next_parent = cur_name_att.val.parent]
               /\ UNCHANGED <<cache, infos>>
    /\ UNCHANGED <<mft, query, pair>>

NoInfo == [number |-> "none"]

PathInit ==
    /\ \E image \in PathImages, kind \in {"HashMapCache", "VecCache"} :
         /\ mft = [state |-> "built", file_record_size |-> FileRecordSize,
                   data |-> image, bitmap |-> <<255, 255>>,
                   max_record |-> Len(image), raw |-> image,
                   allocated |-> 0..15]
         /\ cache = EmptyCache(kind)
    /\ query = [op |-> "none"]
    /\ walk = [pc |-> "idle"]
    /\ infos = [new |-> NoInfo, cached |-> NoInfo]
    /\ pair = [state |-> "none"]

PathIdle ==
    /\ walk = [pc |-> "idle"]
    /\ cache = [kind |-> "none"]
    /\ infos = [new |-> NoInfo, cached |-> NoInfo]
    /\ pair = [state |-> "none"]

\* The two caches side by side: each insert goes to both, each get asks both.
CachePaths == {<<VolumePath, "a">>, <<VolumePath, "a", "b">>}

CacheInit ==
    /\ walk = [pc |-> "idle"]
    /\ cache = [kind |-> "none"]
    /\ infos = [new |-> NoInfo, cached |-> NoInfo]
    /\ pair = [state |-> "given", hash |-> <<>>, vec |-> <<>>,
               \* not part of either cache: the last path inserted per number
               last |-> <<>>,
               asked |-> None]

CacheInsert ==
    /\ pair.state = "given"
    /\ \E n \in 0..MaxCacheNumber, path \in CachePaths :
         pair' = [pair EXCEPT
                    !.hash = HashMapCache_insert(@, n, path),
                    !.vec = VecCache_insert(@, n, path),
                    !.last = [k \in DOMAIN @ \cup {n} |-> IF k = n THEN path ELSE @[k]],
                    !.asked = None]
    /\ UNCHANGED <<walk, cache, infos>>

CacheGet ==
    /\ pair.state = "given"
    /\ \E n \in 0..(MaxCacheNumber + 1) :
         pair' = [pair EXCEPT
                    !.asked = Some([number |-> n,
                                    hash |-> HashMapCache_get(pair.hash, n),
                                    vec |-> VecCache_get(pair.vec, n)])]
    /\ UNCHANGED <<walk, cache, infos>>

(***************************************************************************)
(* AlignedReader (src/src/aligned_reader.rs).                              *)
(***************************************************************************)
round_down_unaligned(alignment, n) == n

round_down(alignment, n) == (n \div alignment) * alignment

round_up(alignment, n) ==
    IF n % alignment = 0 THEN n ELSE round_down(alignment, n) + alignment

\* The byte the device holds at an offset.
DeviceByte(offset) == 100 + offset

DeviceBytes(offset, count) == [k \in 1..count |-> DeviceByte(offset + k - 1)]

\* Vec::resize(size, 0).
Resize(buffer, size) ==
    [k \in 1..size |-> IF k <= Len(buffer) THEN buffer[k] ELSE 0]

\* The alignments a reader is built with: powers of two.
Alignments == {2, 4}

IoError(kind) == [tag |-> "Err", error |-> kind]

SeekOp(offset, ok) == [op |-> "seek", offset |-> offset, ok |-> ok]
ReadExactOp(offset, count, ok) ==
    [op |-> "read_exact", offset |-> offset, count |-> count, ok |-> ok]

\* AlignedReader::new.
ReaderInit ==
    /\ \E alignment \in Alignments :
          reader = [state |-> "open", alignment |-> alignment, position |-> 0,
                    buffer_pos |-> 0, buffer_size |-> 0, buffer |-> <<>>,
                    inner_pos |-> 0]
    /\ issued = <<>>
    /\ outcome = [tag |-> "none"]

ReaderIdle ==
    /\ reader = [state |-> "none"]
    /\ issued = <<>>
    /\ outcome = [tag |-> "none"]

\* buf.copy_from_slice(&self.buffer[start..end]) and what follows it; the
\* slice panics when the buffer is shorter than `end`.
CopyOut(r, start, end, len, ops) ==
    IF end > Len(r.buffer)
    THEN /\ reader' = r
         /\ issued' = ops
         /\ outcome' = [tag |-> "Panic"]
    ELSE /\ reader' = [r EXCEPT !.position = @ + len]
         /\ issued' = ops
         /\ outcome' = Ok([n |-> len, bytes |-> SubSeq(r.buffer, start + 1, end)])

\* AlignedReader::read with a buffer of `len` bytes.  The inner seek may
\* fail; the inner read_exact fails at the end of the device and may fail
\* anywhere, after it has filled `got` bytes of the resized buffer.
ReaderRead ==
    /\ reader.state = "open"
    /\ \E len \in 0..MaxBufLen :
        LET aligned_position == round_down(reader.alignment, reader.position)
            start == reader.position - aligned_position
            end == start + len
            size == round_up(reader.alignment, end)
            sought == [reader EXCEPT !.inner_pos = aligned_position]
            resized == [sought EXCEPT !.buffer = Resize(@, size)]
        IN /\ reader.position + len <= MaxPosition
           /\ IF aligned_position # reader.buffer_pos \/ size > reader.buffer_size
              THEN \/ /\ reader' = reader
                      /\ issued' = <<SeekOp(aligned_position, FALSE)>>
                      /\ outcome' = IoError("seek")
                   \/ \E got \in 0..(IF size = 0 THEN 0 ELSE size - 1) :
                      /\ size > 0
                      /\ reader' = [resized EXCEPT
                                      !.buffer = DeviceBytes(aligned_position, got)
                                                 \o SubSeq(@, got + 1, size),
                                      !.inner_pos = @ + got]
                      /\ issued' = <<SeekOp(aligned_position, TRUE),
                                     ReadExactOp(sought.inner_pos, size, FALSE)>>
                      /\ outcome' = IoError("read_exact")
                   \/ /\ aligned_position + size <= MaxDevice
                      /\ CopyOut([resized EXCEPT
                                    !.buffer = DeviceBytes(sought.inner_pos, size),
                                    !.inner_pos = @ + size,
                                    !.buffer_pos = aligned_position,
                                    !.buffer_size = size],
                                 start, end, len,
                                 <<SeekOp(aligned_position, TRUE),
                                   ReadExactOp(sought.inner_pos, size, TRUE)>>)
              ELSE CopyOut(reader, start, end, len, <<>>)

SeekArgs ==
    {<<"Start", n>> : n \in 0..MaxPosition}
    \cup {<<"End", 0>>}
    \cup {<<"Current", n>> : n \in (-2)..2}

\* AlignedReader::seek.
ReaderSeek ==
    /\ reader.state = "open"
    /\ \E pos \in SeekArgs :
        LET raw_position ==
                IF pos[1] = "Start" THEN Some(pos[2])
                ELSE IF pos[2] >= 0
                THEN checked_add(reader.position, pos[2])
                ELSE IF reader.position < -pos[2] THEN None
                     ELSE Some(reader.position - (-pos[2]))
            n == raw_position.val
            aligned_position == round_down(reader.alignment, n)
        IN IF pos[1] = "End"
           THEN /\ reader' = reader
                /\ issued' = <<>>
                /\ outcome' = IoError("unsupported")
           ELSE IF raw_position = None
           THEN /\ reader' = reader
                /\ issued' = <<>>
                /\ outcome' = IoError("invalid position")
           ELSE /\ n <= MaxPosition
                /\ \/ /\ reader' = reader
                      /\ issued' = <<SeekOp(aligned_position, FALSE)>>
                      /\ outcome' = IoError("seek")
                   \/ /\ reader' = [reader EXCEPT !.inner_pos = aligned_position,
                                                  !.position = n]
                      /\ issued' = <<SeekOp(aligned_position, TRUE)>>
                      /\ outcome' = Ok(n)

(***************************************************************************)
(* The attribute walk of a file record (src/src/file.rs) and the attribute *)
(* view it decodes (src/src/attribute.rs).                                 *)
(***************************************************************************)
\* size_of::<NtfsAttributeHeader>(), a packed struct.
AttributeHeaderSize == 16

\* NtfsAttribute::new on a slice of slice_len bytes that starts with the
\* given attribute header.
NtfsAttribute_new(header, slice_len) ==
    IF slice_len < AttributeHeaderSize THEN None
    ELSE IF header.length = 0 \/ header.length > slice_len THEN None
    ELSE Some([header |-> header, length |-> header.length])

\* The attribute headers a record may carry at an offset of its bytes.
HeaderKinds ==
    { [type_id |-> "Data", length |-> 16],
      [type_id |-> "Data", length |-> 24],
      [type_id |-> "Data", length |-> 8],
      [type_id |-> "Data", length |-> 0],
      [type_id |-> "Data", length |-> 1000],
      [type_id |-> "End", length |-> 16] }

\* The offsets of the record's 8-byte cells and the record's length.
CellOffsets == {8 * c : c \in 0..(MaxAttrCells - 1)}

ScanRecordLen == 8 * MaxAttrCells

\* An NtfsFile: the header fields the walk reads and, per offset, the
\* attribute header its bytes show there.
ScanInit ==
    /\ \E at \in {0, 8}, used \in {0, 16, ScanRecordLen - 8, ScanRecordLen,
                                    ScanRecordLen + 8},
          hs \in [CellOffsets -> HeaderKinds] :
          ntfs_file = [state |-> "given", attributes_offset |-> at,
                       used_size |-> used, len |-> ScanRecordLen,
                       headers |-> hs]
    /\ scan = [pc |-> "idle"]

\* NtfsFile::attributes is entered.
ScanStart ==
    /\ ntfs_file.state = "given"
    /\ scan.pc = "idle"
    /\ scan' = [pc |-> "loop", offset |-> ntfs_file.attributes_offset,
                used |-> Min(ntfs_file.used_size, ntfs_file.len),
                visited |-> <<>>]
    /\ ntfs_file' = ntfs_file

\* One iteration of the loop of NtfsFile::attributes; `visited` lists the
\* attributes the callback was given, with the offsets they were found at.
ScanStep ==
    /\ scan.pc = "loop"
    /\ LET done == [scan EXCEPT !.pc = "done"]
           attribute == NtfsAttribute_new(ntfs_file.headers[scan.offset],
                                          scan.used - scan.offset)
           seen == Append(scan.visited, [offset |-> scan.offset,
                                         length |-> attribute.val.length])
           next == scan.offset + attribute.val.length
       IN IF ~(scan.offset < scan.used) THEN scan' = done
          ELSE IF attribute = None THEN scan' = done
          ELSE IF attribute.val.header.type_id = "End" THEN scan' = done
          ELSE IF attribute.val.length = 0
          THEN scan' = [done EXCEPT !.visited = seen]
          ELSE IF next <= scan.used
          THEN scan' = [scan EXCEPT !.visited = seen, !.offset = next]
          ELSE scan' = [done EXCEPT !.visited = seen]
    /\ ntfs_file' = ntfs_file

ScanIdle ==
    /\ ntfs_file = [state |-> "none"]
    /\ scan = [pc |-> "idle"]

NamedIdle == named = [op |-> "none"]

FsReadIdle == fsread = [op |-> "none"]

FileIdle == ScanIdle /\ NamedIdle /\ FsReadIdle

JournalInit ==
    /\ disk = <<>>
    /\ jstate = "none"
    /\ handles = {}
    /\ hist_option = <<"Unlimited">>
    /\ next_usn = 0
    /\ max_history_size = 0
    /\ history = <<>>
    /\ pc = "idle"
    /\ results = <<>>
    /\ v4_records = <<>>
    /\ classified = <<>>
    /\ observed = <<>>
    /\ call = [start |-> 0, last |-> None, result |-> None]

MftIdle ==
    /\ mft = [state |-> "none"]
    /\ query = [op |-> "none"]

IterIdle == iter = [op |-> "none"]

Init == JournalInit /\ MftIdle /\ IterIdle /\ AttrIdle /\ PathIdle /\ ReaderIdle /\ FileIdle

Next ==
    \/ FsWrite /\ UNCHANGED <<mvars, xvars, avars, pvars, rvars, svars>>
    \/ JournalNew /\ UNCHANGED <<mvars, xvars, avars, pvars, rvars, svars>>
    \/ JournalDrop /\ UNCHANGED <<mvars, xvars, avars, pvars, rvars, svars>>
    \/ ReadStart /\ UNCHANGED <<mvars, xvars, avars, pvars, rvars, svars>>
    \/ ReadBatch /\ UNCHANGED <<mvars, xvars, avars, pvars, rvars, svars>>
    \/ ReadFail /\ UNCHANGED <<mvars, xvars, avars, pvars, rvars, svars>>

Spec == Init /\ [][Next]_vars

\* Every ioctl completes: a call that stands in its loop gets its next batch.
LiveSpec ==
    Spec /\ WF_vars(ReadBatch /\ UNCHANGED <<mvars, xvars, avars, pvars, rvars, svars>>)

MftSpecInit ==
    JournalInit /\ MftInit /\ IterIdle /\ AttrIdle /\ PathIdle /\ ReaderIdle /\ FileIdle

MftNext ==
    \/ MftNew /\ UNCHANGED <<jvars, xvars, avars, pvars, rvars, svars>>
    \/ RecordExists /\ UNCHANGED <<jvars, xvars, avars, pvars, rvars, svars>>
    \/ GetRecord /\ UNCHANGED <<jvars, xvars, avars, pvars, rvars, svars>>

MftSpec == MftSpecInit /\ [][MftNext]_vars

IterSpecInit == JournalInit /\ IterInit /\ AttrIdle /\ PathIdle /\ ReaderIdle /\ FileIdle

IterNext ==
    \/ MftNew /\ UNCHANGED <<jvars, xvars, avars, pvars, rvars, svars>>
    \/ IterateFiles /\ UNCHANGED <<jvars, avars, pvars, rvars, svars>>

IterSpec == IterSpecInit /\ [][IterNext]_vars

AttrSpecInit ==
    JournalInit /\ MftIdle /\ IterIdle /\ AttrInit /\ PathIdle /\ ReaderIdle /\ FileIdle

AttrNext ==
    GetNonresidentDataRuns /\ UNCHANGED <<jvars, mvars, xvars, pvars, rvars, svars>>

AttrSpec == AttrSpecInit /\ [][AttrNext]_vars

PathSpecInit == JournalInit /\ IterIdle /\ AttrIdle /\ PathInit /\ ReaderIdle /\ FileIdle

PathNext ==
    \/ PathStart /\ UNCHANGED <<jvars, xvars, avars, rvars, svars>>
    \/ PathStep /\ UNCHANGED <<jvars, xvars, avars, rvars, svars>>

PathSpec == PathSpecInit /\ [][PathNext]_vars

\* A call that was started runs on: its loop takes its next step.
PathLiveSpec ==
    PathSpec /\ WF_vars(PathStep /\ UNCHANGED <<jvars, xvars, avars, rvars, svars>>)

CacheSpecInit ==
    JournalInit /\ MftIdle /\ IterIdle /\ AttrIdle /\ CacheInit /\ ReaderIdle /\ FileIdle

CacheNext ==
    \/ CacheInsert /\ UNCHANGED <<jvars, mvars, xvars, avars, rvars, svars>>
    \/ CacheGet /\ UNCHANGED <<jvars, mvars, xvars, avars, rvars, svars>>

CacheSpec == CacheSpecInit /\ [][CacheNext]_vars

ReaderSpecInit ==
    JournalInit /\ MftIdle /\ IterIdle /\ AttrIdle /\ PathIdle /\ ReaderInit /\ FileIdle

ReaderNext ==
    \/ ReaderRead /\ UNCHANGED <<jvars, mvars, xvars, avars, pvars, svars>>
    \/ ReaderSeek /\ UNCHANGED <<jvars, mvars, xvars, avars, pvars, svars>>

ReaderSpec == ReaderSpecInit /\ [][ReaderNext]_vars

NameSpecInit ==
    /\ JournalInit /\ IterIdle /\ AttrIdle /\ ReaderIdle /\ ScanIdle /\ FsReadIdle
    /\ walk = [pc |-> "idle"]
    /\ cache = [kind |-> "none"]
    /\ infos = [new |-> NoInfo, cached |-> NoInfo]
    /\ pair = [state |-> "none"]
    /\ NameInit

NameNext ==
    GetBestFileName
    /\ UNCHANGED <<jvars, xvars, avars, pvars, rvars, ntfs_file, scan, fsread>>

NameSpec == NameSpecInit /\ [][NameNext]_vars

FsReadSpecInit ==
    /\ JournalInit /\ MftIdle /\ IterIdle /\ AttrIdle /\ PathIdle /\ ReaderIdle
    /\ ScanIdle /\ NamedIdle /\ FsReadInit

FsReadNext ==
    ReadDataFs
    /\ UNCHANGED <<jvars, mvars, xvars, avars, pvars, rvars, ntfs_file, scan, named>>

FsReadSpec == FsReadSpecInit /\ [][FsReadNext]_vars

ScanSpecInit ==
    /\ JournalInit /\ MftIdle /\ IterIdle /\ AttrIdle /\ PathIdle /\ ReaderIdle
    /\ ScanInit /\ NamedIdle /\ FsReadIdle

ScanNext ==
    \/ ScanStart /\ UNCHANGED <<jvars, mvars, xvars, avars, pvars, rvars, named, fsread>>
    \/ ScanStep /\ UNCHANGED <<jvars, mvars, xvars, avars, pvars, rvars, named, fsread>>

ScanSpec == ScanSpecInit /\ [][ScanNext]_vars

(***************************************************************************)
(* Properties of the Journal.                                              *)
(***************************************************************************)
\* The records the caller has received so far, oldest first.
Returned == Flatten(observed)

LastN(seq, n) == SubSeq(seq, Len(seq) - n + 1, Len(seq))

Qualifies(r) == r.reason \cap HistoryReasons # {}

\* C1: across any sequence of read_sized calls the USNs of the returned records
\* are strictly ascending, within one call's result and from one call to the
\* next (the records gathered by the call in progress included).
C1_UsnStrictlyAscending ==
    LET seen == Returned \o results
    IN \A i, j \in 1..Len(seen) : i < j => seen[i].usn < seen[j].usn

\* Two calls have returned records, the first of them more than one.
C1_Witness ==
    /\ Len(observed) >= 2
    /\ Len(observed[1]) >= 2

\* The history entries a rename record can be matched with: same file_id,
\* RENAME_OLD_NAME, written before it.
PriorOldNames(r) ==
    {k \in 1..Len(history) :
        /\ history[k].file_id = r.file_id
        /\ "RENAME_OLD_NAME" \in history[k].reason
        /\ history[k].usn < r.usn}

\* C2: for every returned record with RENAME_NEW_NAME, if the history holds a
\* prior RENAME_OLD_NAME record of the same file_id, match_rename returns the
\* path of such an older record.
C2_RenameClosure ==
    pc = "idle" =>
        \A i \in 1..Len(Returned) :
            LET r == Returned[i]
            IN ("RENAME_NEW_NAME" \in r.reason /\ PriorOldNames(r) # {})
                  => match_rename(history, r)
                        \in {Some(history[k].path) : k \in PriorOldNames(r)}

\* The history entries of the same file_id with a strictly smaller USN.
PriorEntries(r) ==
    {k \in 1..Len(history) :
        /\ history[k].file_id = r.file_id
        /\ history[k].usn < r.usn}

\* C3: match_rename returns None unless the record bears RENAME_NEW_NAME, and
\* otherwise the (path of the) newest history entry of the same file_id whose
\* USN is strictly less than the record's.
C3_MatchRenameNewestPrior ==
    pc = "idle" =>
        \A i \in 1..Len(Returned) :
            LET r == Returned[i]
            IN match_rename(history, r) =
                  IF "RENAME_NEW_NAME" \notin r.reason \/ PriorEntries(r) = {}
                  THEN None
                  ELSE Some(history[Max(PriorEntries(r))].path)

\* C4: the Journal offers a trim operation: whenever it holds a non-empty
\* history, some operation on it can leave the history empty without touching
\* next_usn (trim_history(None)).
C4_TrimOffered ==
    (jstate = "open" /\ pc = "idle" /\ history # <<>>)
        => ENABLED (Next /\ history' = <<>> /\ next_usn' = next_usn)

\* C5: with max_history_size > 0 the history holds at most max_history_size
\* entries, and they are exactly the most recently produced records whose
\* reason intersects HistoryReasons, in production order.
C5_HistoryRing ==
    max_history_size > 0 =>
        LET q == SelectSeq(classified, Qualifies)
        IN /\ Len(history) <= max_history_size
           /\ history = LastN(q, Min(max_history_size, Len(q)))

\* The ring is full and has dropped an entry.
C5_Witness ==
    /\ max_history_size > 0
    /\ Len(history) = max_history_size
    /\ Len(SelectSeq(classified, Qualifies)) > max_history_size

\* C6: a returned record has non-empty extents iff it was stitched from at least
\* one pending V4 record and a V3 record bearing CLOSE; every other returned
\* record has extents absent.
C6_ExtentsIffStitched ==
    \A i \in 1..Len(Returned) :
        LET r == Returned[i]
        IN IF r.chain > 0 /\ "CLOSE" \in r.reason
           THEN r.extents.tag = "Some" /\ r.extents.val # <<>>
           ELSE r.extents = None

\* C7: every handle Journal::new opened is released once the Journal is
\* dropped or Journal::new has failed.
C7_HandlesReleased ==
    jstate \in {"failed", "dropped"} => handles = {}

(***************************************************************************)
(* Properties of the MFT image.                                            *)
(***************************************************************************)
\* The bytes of record n as the Mft holds them.
RecordBytes(n) == mft.data[n + 1]

\* C8 as stated: for every record number of a constructed Mft, record_exists(n)
\* implies get_record(n) is Some, and get_record(n) being Some implies the
\* record starts with the FILE signature.
C8_BitmapAgreement ==
    query.op = "get_record" =>
        /\ record_exists(mft, query.number) => query.record # None
        /\ query.record # None
              => query.record.val.data.signature = FILE_RECORD_SIGNATURE

\* C8 amended: record_exists(n) implies get_record(n) is Some whenever the
\* record's bytes pass NtfsFile::is_valid, and get_record(n) being Some implies
\* the record starts with the FILE signature.
C8_BitmapAgreementValid ==
    query.op = "get_record" =>
        /\ (/\ record_exists(mft, query.number)
            /\ is_valid(RecordBytes(query.number), mft.file_record_size))
              => query.record # None
        /\ query.record # None
              => query.record.val.data.signature = FILE_RECORD_SIGNATURE

\* get_record returned the view of an allocated record.
C8_Witness ==
    /\ query.op = "get_record"
    /\ query.record # None
    /\ record_exists(mft, query.number)

\* C9 as stated: get_record(n) returns a view iff record_exists(n) holds and
\* is_valid passes on the record's bytes; None for an unallocated record and
\* for n >= max_record.
C9_GetRecordIffExists ==
    query.op = "get_record" =>
        (query.record # None <=>
            /\ record_exists(mft, query.number)
            /\ is_valid(RecordBytes(query.number), mft.file_record_size))

\* C9 amended: get_record(n) returns the view of record n iff n < max_record
\* and is_valid passes on the record's bytes, whatever the bitmap says; it
\* returns None for n >= max_record.
C9_GetRecordIffValid ==
    query.op = "get_record" =>
        IF /\ query.number < mft.max_record
           /\ is_valid(RecordBytes(query.number), mft.file_record_size)
        THEN query.record = Some([number |-> query.number,
                                  data |-> RecordBytes(query.number)])
        ELSE query.record = None

\* get_record returned the view of a record whose bitmap bit is clear.
C9_Witness ==
    /\ query.op = "get_record"
    /\ query.record # None
    /\ ~record_exists(mft, query.number)

\* C10: record_exists(n) is true exactly when n < max_record and the bitmap
\* holds a set bit for n; it is false for every n >= max_record and for every n
\* whose bitmap byte lies beyond the end of the bitmap.
C10_RecordExists ==
    query.op = "record_exists" =>
        /\ query.exists <=> (query.number < mft.max_record
                             /\ query.number \in mft.allocated)
        /\ query.number >= mft.max_record => ~query.exists
        /\ query.number \div 8 >= Len(mft.bitmap) => ~query.exists

\* record_exists found the bit of a record of the bitmap's second byte.
C10_Witness ==
    /\ query.op = "record_exists"
    /\ query.exists
    /\ query.number >= 8

(***************************************************************************)
(* Properties of iterate_files.                                            *)
(***************************************************************************)
Times(calls, n) == Cardinality({i \in 1..Len(calls) : calls[i] = n})

Ascending(calls) ==
    /\ \A i, j \in 1..Len(calls) : i < j => calls[i] < calls[j]
    /\ \A i \in 1..Len(calls) : calls[i] >= FIRST_NORMAL_RECORD

\* C11 as stated: iterate_files invokes the callback exactly once for every
\* record number n in [24, max_record) for which record_exists(n) holds and the
\* record's in-use flag is set, and for no other record; the numbers the
\* callback sees are strictly ascending and all >= 24.
C11_IterateFiles ==
    iter.op = "done" =>
        /\ \A n \in 0..(mft.max_record - 1) :
              Times(iter.calls, n) =
                  IF /\ n >= FIRST_NORMAL_RECORD
                     /\ record_exists(mft, n)
                     /\ is_used(RecordBytes(n))
                  THEN 1 ELSE 0
        /\ Ascending(iter.calls)

\* C11 amended: the callback is invoked exactly once for every n in
\* [24, max_record) for which record_exists(n) holds, the record's bytes pass
\* NtfsFile::is_valid and its in-use flag is set, and for no other record; the
\* numbers are strictly ascending and all >= 24.
C11_IterateFilesValid ==
    iter.op = "done" =>
        /\ \A n \in 0..(mft.max_record - 1) :
              Times(iter.calls, n) =
                  IF /\ n >= FIRST_NORMAL_RECORD
                     /\ record_exists(mft, n)
                     /\ is_valid(RecordBytes(n), mft.file_record_size)
                     /\ is_used(RecordBytes(n))
                  THEN 1 ELSE 0
        /\ Ascending(iter.calls)

\* The callback was given a record while another one, valid and in use but
\* with its bitmap bit clear, was passed over.
C11_Witness ==
    /\ iter.op = "done"
    /\ Len(iter.calls) >= 1
    /\ \E n \in FIRST_NORMAL_RECORD..(mft.max_record - 1) :
          /\ Times(iter.calls, n) = 0
          /\ is_valid(RecordBytes(n), mft.file_record_size)
          /\ is_used(RecordBytes(n))

(***************************************************************************)
(* Properties of the data-run decoding.                                    *)
(***************************************************************************)
RECURSIVE SumLengths(_)
SumLengths(runs) ==
    IF runs = <<>> THEN 0 ELSE Head(runs).length + SumLengths(Tail(runs))

\* C12: whenever get_nonresident_data_runs succeeds, the lengths of the
\* returned runs, Data and Sparse, add up to at least the data_size it returns.
C12_RunsCoverSize ==
    (decoded.op = "done" /\ decoded.result.tag = "Ok") =>
        SumLengths(decoded.result.val.runs) >= decoded.result.val.size

\* The call succeeded on a non-empty attribute with a Data and a Sparse run.
C12_Witness ==
    /\ decoded.op = "done"
    /\ decoded.result.tag = "Ok"
    /\ decoded.result.val.size > 0
    /\ \E i, j \in 1..Len(decoded.result.val.runs) :
          /\ decoded.result.val.runs[i].kind = "Data"
          /\ decoded.result.val.runs[j].kind = "Sparse"

(***************************************************************************)
(* Properties of the update-sequence fixup.                                *)
(***************************************************************************)
Sectors(len) == len \div SECTOR_SIZE

ValidRecords ==
    {n \in 0..(mft.max_record - 1) : is_valid(RecordBytes(n), mft.file_record_size)}

RECURSIVE PathOf(_, _)
PathOf(n, fuel) ==
    IF fuel = 0 \/ n >= mft.max_record THEN None
    ELSE LET best == BestOf(mft.data[n + 1].attributes, None, mft)
         IN IF best = None THEN None
            ELSE IF best.val.parent = ROOT_RECORD
            THEN Some(<<VolumePath, best.val.name>>)
            ELSE LET up == PathOf(best.val.parent, fuel - 1)
                 IN IF up = None THEN None
                    ELSE Some(Append(up.val, best.val.name))

RightPath(info) ==
    (info # NoInfo /\ info.path # <<>>) =>
        Some(info.path) = PathOf(info.number, mft.max_record)

\* C14: every non-empty path produced by FileInfo::new or FileInfo::with_cache,
\* with either cache, starts with the volume path, followed by the ancestor
\* names in root-to-leaf order and then the leaf name.
C14_PathFromVolume ==
    mft.state = "built" => RightPath(infos.new) /\ RightPath(infos.cached)

\* C15: starting from an empty cache, the path FileInfo::with_cache returns
\* for a record equals the path FileInfo::new returns for the same record.
C15_CachedPathEqualsNew ==
    (/\ infos.new # NoInfo
     /\ infos.cached # NoInfo
     /\ infos.new.number = infos.cached.number)
        => infos.cached.path = infos.new.path

\* C16: after any sequence of insert calls, get(n) returns the path most
\* recently inserted for n and absent for every n never inserted, for the
\* HashMapCache and for the VecCache alike.
C16_CachesAgree ==
    (pair.state = "given" /\ pair.asked # None) =>
        LET a == pair.asked.val
            expected == IF a.number \in DOMAIN pair.last
                        THEN Some(pair.last[a.number]) ELSE None
        IN /\ a.hash = expected
           /\ a.vec = expected

\* C17: path resolution terminates for every image: a call of FileInfo::new or
\* FileInfo::with_cache that has entered its loop returns.
C17_PathTerminates == (walk.pc = "loop") ~> (walk.pc = "idle")

C19_LoopIffChainOpen ==
    call.last # None =>
        (call.last.val.need_loop <=> call.last.val.pending > 0)

\* The V2 and V3 records among records first..last of the journal, in order.
RECURSIVE Walked(_, _)
Walked(first, last) ==
    IF first > last THEN <<>>
    ELSE (IF disk[first].ver \in {2, 3} THEN <<first>> ELSE <<>>)
         \o Walked(first + 1, last)

\* C20: the result of read_sized holds, in journal order, exactly one record
\* for each V2 and each V3 record of the batches the call read; V4 records and
\* records of any other major version produce no result of their own and do
\* not stop the walk.
C20_OneResultPerRecord ==
    (pc = "idle" /\ call.result # None) =>
        LET res == call.result.val
            idx == Walked(call.start + 1, next_usn)
        IN /\ Len(res) = Len(idx)
           /\ \A k \in 1..Len(idx) :
                /\ res[k].usn = UsnAt(idx[k])
                /\ res[k].reason = disk[idx[k]].reason
                /\ res[k].file_id = IF disk[idx[k]].ver = 2
                                    THEN Normal(disk[idx[k]].fid)
                                    ELSE Extended(disk[idx[k]].fid)

\* A call returned records after it had walked past a V4 record and a record
\* of an unknown major version that came before a V2 or V3 record.
C20_Witness ==
    /\ pc = "idle"
    /\ call.result # None
    /\ call.result.val # <<>>
    /\ \E i, j, k \in (call.start + 1)..next_usn :
          /\ i < k /\ j < k
          /\ disk[i].ver = 4
          /\ disk[j].ver \notin {2, 3, 4}
          /\ disk[k].ver \in {2, 3}

\* The extent lists of the V4 records among records first..last of the
\* journal, in journal order.
RECURSIVE Delivered(_, _)
Delivered(first, last) ==
    IF first > last THEN <<>>
    ELSE (IF disk[first].ver = 4 THEN <<disk[first].ext>> ELSE <<>>)
         \o Delivered(first + 1, last)

\* The journal position of the last V2 or V3 record before position i, 0 if
\* there is none.
LastClassifiedBefore(i) ==
    Max({0} \cup {j \in 1..(i - 1) : disk[j].ver \in {2, 3}})

\* C21: a V3 record bearing CLOSE that is stitched carries as extents the
\* concatenation, in journal order, of the extent lists of the V4 records
\* received since the last V2 or V3 record, as the journal delivered them, also
\* when they arrived in an earlier ioctl batch of the same call.
C21_StitchedExtentsAsDelivered ==
    \A k \in 1..Len(classified) :
        LET r == classified[k]
            i == r.usn + 1
            lists == Delivered(LastClassifiedBefore(i) + 1, i - 1)
        IN (r.chain > 0 /\ "CLOSE" \in r.reason) =>
              /\ r.chain <= Len(lists)
              /\ r.extents =
                   Some(ConvertExtents(Flatten(LastN(lists, r.chain))))

(***************************************************************************)
(* Properties of data-run decoding.                                        *)
(***************************************************************************)
\* The run bytes of the attribute given to get_nonresident_data_runs.
RunsData ==
    SubSeq(attr.attribute.body,
           attr.attribute.data_runs_offset - NonResidentHeaderSize + 1,
           Len(attr.attribute.body))

\* The little-endian value of bytes, unsigned and as a two's-complement number.
RECURSIVE Unsigned(_)
Unsigned(bytes) ==
    IF bytes = <<>> THEN 0 ELSE Head(bytes) + 256 * Unsigned(Tail(bytes))

Signed(bytes) ==
    IF bytes[Len(bytes)] >= 128 THEN Unsigned(bytes) - 2 ^ (8 * Len(bytes))
    ELSE Unsigned(bytes)

\* The descriptors of a well-formed run list from byte `at` on, in on-disk
\* order: the cluster count, the size O of the offset field and the relative
\* offset in clusters.
RECURSIVE Descriptors(_, _)
Descriptors(bytes, at) ==
    IF bytes[at] = 0 THEN <<>>
    ELSE LET L == bytes[at] % 16
             O == bytes[at] \div 16
         IN <<[count |-> Unsigned(SubSeq(bytes, at + 1, at + L)),
               O |-> O,
               offset |-> IF O = 0 THEN 0
                          ELSE Signed(SubSeq(bytes, at + L + 1, at + L + O))]>>
            \o Descriptors(bytes, at + 1 + L + O)

\* The cluster number the k-th run starts at: the relative offsets of the runs
\* up to it added up from 0 (a sparse run adds nothing).
RECURSIVE ClusterOf(_, _)
ClusterOf(ds, k) == IF k = 0 THEN 0 ELSE ClusterOf(ds, k - 1) + ds[k].offset

\* A successful decoding of a non-empty attribute.
Decoded ==
    /\ decoded.op = "done"
    /\ decoded.result.tag = "Ok"
    /\ decoded.result.val.size > 0

RECURSIVE WellFormed(_, _, _, _, _)
WellFormed(bytes, at, lcn, total, cluster_size) ==
    IF at > Len(bytes) THEN FALSE
    ELSE IF bytes[at] = 0 THEN TRUE
    ELSE LET L == bytes[at] % 16
             O == bytes[at] \div 16
             count == Unsigned(SubSeq(bytes, at + 1, at + L))
             start == IF O = 0 THEN lcn
                      ELSE lcn + Signed(SubSeq(bytes, at + L + 1, at + L + O))
         IN /\ L \in 1..8
            /\ O <= 8
            /\ at + L + O <= Len(bytes)
            /\ count > 0
            /\ count <= U64Max \div cluster_size
            /\ count * cluster_size <= U64Max - total
            /\ start >= 0
            /\ WellFormed(bytes, at + 1 + L + O, start,
                          total + count * cluster_size, cluster_size)

\* get_nonresident_data_runs was given a non-resident attribute whose run
\* bytes are malformed.
MalformedGiven ==
    /\ decoded.op = "done"
    /\ nonresident_header(attr.attribute) # None
    /\ attr.attribute.data_runs_offset <= attr.attribute.length
    /\ ~WellFormed(RunsData, 1, 0, 0, attr.cluster_size)

\* C23 as stated: for a non-resident attribute with malformed run bytes
\* get_nonresident_data_runs returns an InvalidDataRun error and no run list,
\* whatever the declared data_size is, 0 included.
C23_MalformedRejected ==
    MalformedGiven =>
        /\ decoded.result.tag = "Err"
        /\ decoded.result.error = "InvalidDataRun"

\* C23 amended: the same for every declared data_size above 0; with data_size 0
\* the call returns Ok with size 0 and no runs, the run bytes unread.
C23_MalformedRejectedNonEmpty ==
    MalformedGiven =>
        IF attr.attribute.data_size > 0
        THEN /\ decoded.result.tag = "Err"
             /\ decoded.result.error = "InvalidDataRun"
        ELSE decoded.result = Ok([size |-> 0, runs |-> <<>>])

\* A list with a sound first run and a second run that starts below cluster 0
\* was rejected.
C23_Witness ==
    /\ MalformedGiven
    /\ attr.attribute.data_size > 0
    /\ decoded.result.tag = "Err"
    /\ decoded.result.details = "relative offset underflow"
    /\ RunsData[1] = 17

(***************************************************************************)
(* Properties of Mft::new.                                                 *)
(***************************************************************************)
\* Some sector of the record ends in two bytes other than its stored update
\* sequence number.
Mismatches(rec) ==
    \E k \in 1..Sectors(FileRecordSize) : rec.tails[k] # rec.usn

\* C24: Mft::new applies the fixup under the strict policy: construction fails
\* with CorruptMftRecord{number = i} if and only if some sector of record i
\* does not end in the stored update sequence number (i the first such
\* record), and a record whose update sequence array has fewer entries than
\* the record has sectors is not accepted.
C24_StrictFixup ==
    mft.state \in {"built", "error"} =>
        LET bad == {i \in 0..(Len(mft.raw) - 1) : Mismatches(mft.raw[i + 1])}
        IN /\ (mft.state = "error") <=> (bad # {})
           /\ mft.state = "error" =>
                mft.error = [kind |-> "CorruptMftRecord", number |-> MinOf(bad)]
           /\ mft.state = "built" =>
                \A i \in 0..(Len(mft.raw) - 1) :
                    mft.raw[i + 1].update_sequence_length # 0 =>
                        mft.raw[i + 1].update_sequence_length - 1
                            >= Sectors(FileRecordSize)

(***************************************************************************)
(* Properties of the attribute walk.                                       *)
(***************************************************************************)
\* C25: every attribute an attribute walk visits has a declared length of at
\* least the attribute header size and at most the bytes that remain of the
\* record, and the walk visits strictly increasing offsets below
\* min(used_size, record length).
C25_AttributeBounds ==
    scan.pc \in {"loop", "done"} =>
        /\ \A k \in 1..Len(scan.visited) :
              /\ scan.visited[k].length >= AttributeHeaderSize
              /\ scan.visited[k].length <= scan.used - scan.visited[k].offset
              /\ scan.visited[k].offset < Min(ntfs_file.used_size, ntfs_file.len)
        /\ \A j, k \in 1..Len(scan.visited) :
              j < k => scan.visited[j].offset < scan.visited[k].offset

(***************************************************************************)
(* Properties of get_best_file_name.                                       *)
(***************************************************************************)
\* The name candidate behind an AttributeList entry: the first FileName
\* attribute of the record it references, if it is there, decodes and is not
\* a reparse point.
EntryCandidates(entry) ==
    IF entry.type_id # "FileName" \/ entry.reference >= mft.max_record THEN <<>>
    ELSE LET att == FirstOfType(mft.data[entry.reference + 1].attributes, "FileName")
         IN IF att = None THEN <<>>
            ELSE IF att.val.as_name = None THEN <<>>
            ELSE IF att.val.as_name.val.reparse THEN <<>>
            ELSE <<att.val.as_name.val>>

\* The non-reparse name candidates of a record in the order of its attributes:
\* its own FileName attributes and the FileName entries of its resident
\* AttributeLists.
RECURSIVE Candidates(_)
Candidates(attributes) ==
    IF attributes = <<>> THEN <<>>
    ELSE LET a == Head(attributes)
         IN (IF a.type_id = "FileName"
             THEN IF a.as_name = None THEN <<>>
                  ELSE IF a.as_name.val.reparse THEN <<>>
                  ELSE <<a.as_name.val>>
             ELSE IF a.type_id = "AttributeList" /\ a.is_non_resident = 0
             THEN Flatten([k \in 1..Len(a.entries) |-> EntryCandidates(a.entries[k])])
             ELSE <<>>)
            \o Candidates(Tail(attributes))

IsWin32(name) == name.namespace \in {"Win32", "Win32AndDos"}

\* C26: get_best_file_name returns the first non-reparse candidate in the
\* Win32 or Win32AndDos namespace among the record's own FileName attributes
\* and the FileName entries of a resident AttributeList; without one, the last
\* non-reparse candidate; None only when there is no candidate at all.
C26_BestFileName ==
    named.op = "done" =>
        LET cs == Candidates(mft.data[named.number + 1].attributes)
            win == SelectSeq(cs, IsWin32)
        IN named.result = IF win # <<>> THEN Some(win[1])
                          ELSE IF cs # <<>> THEN Some(cs[Len(cs)])
                          ELSE None

(***************************************************************************)
(* Properties of read_data_fs.                                             *)
(***************************************************************************)
\* The bytes of the attribute of the type in the records the entries of that
\* type reference, in the order of the entries.
RECURSIVE Referenced(_, _)
Referenced(entries, attribute_type) ==
    IF entries = <<>> THEN <<>>
    ELSE LET entry == Head(entries)
             target == get_record_fs(entry.reference)
         IN (IF entry.type_id = attribute_type /\ target.tag = "Ok"
             THEN LET held == FirstOfType(target.val, attribute_type)
                  IN IF held = None THEN <<>> ELSE <<held.val.value>>
             ELSE <<>>)
            \o Referenced(Tail(entries), attribute_type)

\* The same through every AttributeList of the record, resident or not.
RECURSIVE ReferencedByLists(_, _)
ReferencedByLists(attributes, attribute_type) ==
    IF attributes = <<>> THEN <<>>
    ELSE (IF Head(attributes).type_id = "AttributeList"
          THEN Referenced(Head(attributes).value, attribute_type)
          ELSE <<>>)
         \o ReferencedByLists(Tail(attributes), attribute_type)

\* C27: when the requested attribute is not in the MFT's own record but the
\* record has an AttributeList, resident or non-resident, with an entry of
\* that type, read_data_fs loads the referenced record and returns that
\* attribute's bytes; it returns None only when neither the record nor any
\* referenced record holds the attribute.
C27_ReadThroughAttributeList ==
    (fsread.op = "done"
       /\ FirstOfType(fsread.attributes, fsread.attribute_type) = None) =>
        LET held == ReferencedByLists(fsread.attributes, fsread.attribute_type)
        IN fsread.result = IF held = <<>> THEN Ok(None) ELSE Ok(Some(held[1]))

(***************************************************************************)
(* Termination of read_sized and the bound of the history.                 *)
(***************************************************************************)
\* C28: read_sized terminates when the journal holds finitely many records and
\* every ioctl completes: a call that has entered its loop returns, also when
\* the last batch ends inside a V4 chain that is never closed.
C28_ReadSizedTerminates == (pc = "loop") ~> (pc = "idle")

\* A call returned Ok although its last batch left a V4 chain open, after
\* more than one ioctl.
C28_Witness ==
    /\ pc = "idle"
    /\ call.result # None
    /\ call.last # None
    /\ call.last.val.pending > 0
    /\ next_usn = Len(disk)

\* C30: for a Journal created with HistorySize::Limited(n) the history never
\* holds more than n entries, for every n, 0 included.
C30_HistoryWithinLimit ==
    (jstate = "open" /\ hist_option[1] = "Limited") =>
        Len(history) <= hist_option[2]

(***************************************************************************)
(* Properties of the AlignedReader's answers.                              *)
(***************************************************************************)
\* The last call was a read that returned Ok: a seek that returns Ok has
\* issued exactly one request, a read none or two.
ReadReturnedOk == outcome.tag = "Ok" /\ Len(issued) # 1

\* C29: after any sequence of seek and read calls, failed ones included, every
\* read that returns Ok fills the caller's buffer with the device bytes at
\* [position, position + len) and advances position by len, and no read is
\* served from a buffer that does not hold the window recorded in buffer_pos
\* and buffer_size.
C29_ReadsDeviceBytes ==
    /\ outcome.tag # "Panic"
    /\ ReadReturnedOk =>
          outcome.val.bytes =
              DeviceBytes(reader.position - outcome.val.n, outcome.val.n)
    /\ reader.state = "open" =>
          /\ Len(reader.buffer) >= reader.buffer_size
          /\ SubSeq(reader.buffer, 1, reader.buffer_size)
               = DeviceBytes(reader.buffer_pos, reader.buffer_size)

====
